---- MODULE Spec2Model ----
(***************************************************************************)
(* A model of PyPica's command-line image processor (src/app.py).          *)
(*                                                                         *)
(* One run of main() is a state machine: the ImageProcessor is built from  *)
(* the input file, then the requested operations run in the order of the   *)
(* if-statements of main(), each one reading the working image self.image  *)
(* and saving its result under a prefixed file name.  The first exception  *)
(* leaves the try block, prints one message and ends the run.              *)
(*                                                                         *)
(* An image is a record: format, mode, w, h, px (a function from <<x, y>>  *)
(* to the tuple of channel values of that pixel) and palette (the flat     *)
(* list r0, g0, b0, r1, ... that getpalette() returns, <<>> when the mode  *)
(* has none).                                                              *)
(***************************************************************************)
EXTENDS Integers, Sequences, FiniteSets, TLC

VARIABLES
    fileExists,   \* os.path.isfile(image_path)
    fileImage,    \* the decoded content of the input file
    argv,         \* the operation flags, in command-line order
    cropArg,      \* --crop LEFT UPPER RIGHT LOWER
    coefArg,      \* --adjust_colors R G B, each a fraction <<num, den>>
    pc,           \* the position of main(): "init", an operation, or "done"
    image,        \* processor.image, the working image
    outputs,      \* the saved output files, by prefix
    err,          \* the "An error occurred" messages printed
    stdout,       \* what get_info printed
    ran           \* the operations called so far, in call order

vars == <<fileExists, fileImage, argv, cropArg, coefArg, pc, image, outputs,
          err, stdout, ran>>

(***************************************************************************)
(* Bounds of the input families.                                           *)
(***************************************************************************)
MaxW == 2
MaxH == 2
MaxArgs == 4
MaxColors == 17

(***************************************************************************)
(* Images.                                                                 *)
(***************************************************************************)
NoImage ==
    [format |-> "None", mode |-> "None", w |-> 0, h |-> 0,
     px |-> << >>, palette |-> << >>]

Coords(w, h) == (0 .. w - 1) \X (0 .. h - 1)

Bands(mode) ==
    CASE mode = "RGB" -> 3
      [] mode = "RGBA" -> 4
      [] OTHER -> 1

Range(s) == {s[i] : i \in 1 .. Len(s)}

Min(S) == CHOOSE m \in S : \A n \in S : m <= n

(***************************************************************************)
(* Error messages: the text of the ValueError each failure raises.         *)
(***************************************************************************)
Error(kind, w, h, mode) == [kind |-> kind, w |-> w, h |-> h, mode |-> mode]

FileNotFound == Error("File not found", 0, 0, "")
CropBounds(w, h) == Error("Invalid crop dimensions. Image dimensions are", w, h, "")
CropOrder == Error("Invalid crop dimensions. Please ensure that left < right and upper < lower.", 0, 0, "")
NotInList == Error("True is not in list", 0, 0, "")
NoPalette == Error("Image does not have a palette.", 0, 0, "")
AdjustMode(mode) == Error("Unsupported image mode for color adjustment", 0, 0, mode)
InvertMode(mode) == Error("Unsupported image mode for color inversion", 0, 0, mode)
NoError == Error("", 0, 0, "")

Raise(img, e) == [ok |-> FALSE, out |-> NoImage, image |-> img, e |-> e]
Return(img, out) == [ok |-> TRUE, out |-> out, image |-> img, e |-> NoError]

(***************************************************************************)
(* The imaging library's operations that the program calls.                *)
(***************************************************************************)
\* Image.crop(box): the region [l, r) x [u, lo); what lies outside the source is 0.
Crop(img, l, u, r, lo) ==
    [format |-> "None", mode |-> img.mode, w |-> r - l, h |-> lo - u,
     px |-> [p \in Coords(r - l, lo - u) |->
               IF /\ l + p[1] >= 0 /\ l + p[1] < img.w
                  /\ u + p[2] >= 0 /\ u + p[2] < img.h
               THEN img.px[<<l + p[1], u + p[2]>>]
               ELSE [c \in 1 .. Bands(img.mode) |-> 0]],
     palette |-> img.palette]

\* Image.convert('L') of one pixel: ITU-R 601-2 luma of the pixel's colour.
Luminance(img, p) ==
    LET v == img.px[p] IN
    CASE img.mode \in {"RGB", "RGBA"} ->
             (v[1] * 19595 + v[2] * 38470 + v[3] * 7471 + 32768) \div 65536
      [] img.mode = "P" ->
             (img.palette[3 * v[1] + 1] * 299 + img.palette[3 * v[1] + 2] * 587
                + img.palette[3 * v[1] + 3] * 114) \div 1000
      [] OTHER -> v[1]

\* The 8-bit clip the library applies to every entry of a lookup table.
Clip8(n) == IF n < 0 THEN 0 ELSE IF n > 255 THEN 255 ELSE n

\* Python's round() of the fraction num/den (den > 0): to nearest, ties to even.
Round(num, den) ==
    LET q == num \div den
        r == num % den
    IN  IF 2 * r < den THEN q
        ELSE IF 2 * r > den THEN q + 1
        ELSE IF q % 2 = 0 THEN q ELSE q + 1

\* Image.point(f) calls f on the values 0..255 to build one table,
\* and that one table, clipped to 8 bits, maps every band of every pixel.
Point(img, lut) ==
    [img EXCEPT !.format = "None",
                !.px = [p \in Coords(img.w, img.h) |->
                          [c \in 1 .. Bands(img.mode) |-> Clip8(lut[img.px[p][c]])]]]

\* A lookup that answers 0 where list.index raises.
ListIndexOrZero(s, v) ==
    IF \E i \in 1 .. Len(s) : s[i] = v
    THEN Min({i \in 1 .. Len(s) : s[i] = v}) - 1
    ELSE 0

\* list.index(v): the first position holding v, counted from 0; -1 stands
\* for the ValueError raised when there is none.
ListIndex(s, v) ==
    IF \E i \in 1 .. Len(s) : s[i] = v
    THEN Min({i \in 1 .. Len(s) : s[i] = v}) - 1
    ELSE -1

\* s[::-1]
Reversed(s) == [i \in 1 .. Len(s) |-> s[Len(s) + 1 - i]]

\* int(n ** 0.5)
ISqrt(n) == CHOOSE s \in 0 .. n : s * s <= n /\ (s + 1) * (s + 1) > n

(***************************************************************************)
(* The methods of ImageProcessor.  Each returns whether it succeeded, the  *)
(* image it saved, the working image it leaves and the error it raised.    *)
(***************************************************************************)
get_info(img) ==
    [format |-> img.format, mode |-> img.mode, w |-> img.w, h |-> img.h,
     palette |-> img.mode = "P"]

\* crop_image with the frame built as (upper, left, lower, right).
crop_image_swapped(img, left, upper, right, lower) ==
    IF left < 0 \/ upper < 0 \/ right > img.w \/ lower > img.h
    THEN Raise(img, CropBounds(img.w, img.h))
    ELSE IF left >= right \/ upper >= lower
    THEN Raise(img, CropOrder)
    ELSE Return(img, Crop(img, upper, left, lower, right))

\* crop_image without the check of left < right and upper < lower.
crop_image_unordered(img, left, upper, right, lower) ==
    IF left < 0 \/ upper < 0 \/ right > img.w \/ lower > img.h
    THEN Raise(img, CropBounds(img.w, img.h))
    ELSE Return(img, Crop(img, left, upper, right, lower))

crop_image(img, left, upper, right, lower) ==
    IF left < 0 \/ upper < 0 \/ right > img.w \/ lower > img.h
    THEN Raise(img, CropBounds(img.w, img.h))
    ELSE IF left >= right \/ upper >= lower
    THEN Raise(img, CropOrder)
    ELSE Return(img, Crop(img, left, upper, right, lower))

\* binary_image.getpixel((x, y)) after point(lambda p: int(p > 0))
Binary(img, p) == IF Luminance(img, p) > 0 THEN 1 ELSE 0

x_projection(img) ==
    [i \in 1 .. img.w |-> \E y \in 0 .. img.h - 1 : Binary(img, <<i - 1, y>>) # 0]

y_projection(img) ==
    [j \in 1 .. img.h |-> \E x \in 0 .. img.w - 1 : Binary(img, <<x, j - 1>>) # 0]

\* crop_empty with right and lower taken as the index of the last True.
crop_empty_last(img) ==
    LET xp == x_projection(img)
        yp == y_projection(img)
        li == ListIndex(xp, TRUE)
        ri == ListIndex(Reversed(xp), TRUE)
        ui == ListIndex(yp, TRUE)
        wi == ListIndex(Reversed(yp), TRUE)
    IN  IF li = -1 \/ ri = -1 \/ ui = -1 \/ wi = -1
        THEN Raise(img, NotInList)
        ELSE LET new == Crop(img, li, ui, Len(xp) - ri - 1, Len(yp) - wi - 1)
             IN  Return(new, new)

crop_empty(img) ==
    LET xp == x_projection(img)
        yp == y_projection(img)
        li == ListIndex(xp, TRUE)
        ri == ListIndex(Reversed(xp), TRUE)
        ui == ListIndex(yp, TRUE)
        wi == ListIndex(Reversed(yp), TRUE)
    IN  IF li = -1 \/ ri = -1 \/ ui = -1 \/ wi = -1
        THEN Raise(img, NotInList)
        ELSE LET new == Crop(img, li, ui, Len(xp) - ri, Len(yp) - wi)
             IN  Return(new, new)

\* The side without the test for a perfect square.
ActualSidePlusOne(num_colors) == ISqrt(num_colors) + 1

ActualSide(num_colors) ==
    LET side == ISqrt(num_colors)
    IN  IF side * side = num_colors THEN side ELSE side + 1

get_palette(img) ==
    IF img.mode # "P"
    THEN Raise(img, NoPalette)
    ELSE LET palette == img.palette
             num_colors == Len(palette) \div 3
             actual_side == ActualSide(num_colors)
             new_image ==
                 [format |-> "None", mode |-> "RGB",
                  w |-> actual_side, h |-> actual_side,
                  px |-> [p \in Coords(actual_side, actual_side) |->
                            LET color_index == p[2] * actual_side + p[1]
                            IN  IF color_index < num_colors
                                THEN <<palette[color_index * 3 + 1],
                                       palette[color_index * 3 + 2],
                                       palette[color_index * 3 + 3]>>
                                ELSE <<0, 0, 0>>],
                  palette |-> << >>]
         IN  Return(img, new_image)

\* lambda i: i * coefficients[i % 3], rounded by point()
AdjustValue(coefficients, i) ==
    Round(i * coefficients[(i % 3) + 1][1], coefficients[(i % 3) + 1][2])

adjust_colors(img, coefficients) ==
    IF img.mode \notin {"RGB", "RGBA"}
    THEN Raise(img, AdjustMode(img.mode))
    ELSE Return(img, Point(img, [i \in 0 .. 255 |-> AdjustValue(coefficients, i)]))

\* lambda i: 256 - i
InvertValue256(i) == 256 - i

\* lambda i: 255 - i
InvertValue(i) == 255 - i

invert_colors(img) ==
    IF img.mode \notin {"RGB", "RGBA"}
    THEN Raise(img, InvertMode(img.mode))
    ELSE Return(img, Point(img, [i \in 0 .. 255 |-> InvertValue(i)]))

(***************************************************************************)
(* main(): the operations in the order of its if-statements.               *)
(***************************************************************************)
\* main() with the crop_empty statement ahead of the crop statement.
OrderCropEmptyFirst ==
    <<"info", "crop_empty", "crop", "palette", "adjust_colors", "invert">>

Order == <<"info", "crop", "crop_empty", "palette", "adjust_colors", "invert">>

Flags == Range(Order)

Pos(op) == IF op = "init" THEN 0 ELSE CHOOSE i \in 1 .. Len(Order) : Order[i] = op

\* parse_args(): a flag is set when it occurs anywhere on the command line.
Requested(op) == \E i \in 1 .. Len(argv) : argv[i] = op

\* The next if-statement of main(), after position i, whose flag is set.
NextOp(i) ==
    LET later == {j \in i + 1 .. Len(Order) : Requested(Order[j])}
    IN  IF later = {} THEN "done" ELSE Order[Min(later)]

\* An except clause around each call instead of around them all.
ExceptPerCall(op) == NextOp(Pos(op))

\* except Exception: the run goes to the print and ends, whichever call raised.
Except(op) == "done"

\* _get_output_filename(prefix): the prefix each operation saves under.
Prefix(op) ==
    CASE op = "crop" -> "cropped"
      [] op = "crop_empty" -> "cropped_empty"
      [] op = "palette" -> "palette"
      [] op = "adjust_colors" -> "adjusted"
      [] op = "invert" -> "inverted"

Prefixes == {Prefix(op) : op \in Flags \ {"info"}}

\* The state after the call of operation op ended as r.
Call(op, r) ==
    /\ ran' = Append(ran, op)
    /\ image' = r.image
    /\ IF r.ok
       THEN /\ outputs' = [outputs EXCEPT ![Prefix(op)] = r.out]
            /\ err' = err
            /\ pc' = NextOp(Pos(op))
       ELSE /\ outputs' = outputs
            /\ err' = Append(err, r.e)
            /\ pc' = Except(op)
    /\ UNCHANGED <<fileExists, fileImage, argv, cropArg, coefArg, stdout>>

\* processor = ImageProcessor(args.image_path)
Load ==
    /\ pc = "init"
    /\ IF fileExists
       THEN /\ image' = fileImage
            /\ err' = err
            /\ pc' = NextOp(0)
       ELSE /\ image' = image
            /\ err' = Append(err, FileNotFound)
            /\ pc' = Except("init")
    /\ UNCHANGED <<fileExists, fileImage, argv, cropArg, coefArg, outputs, stdout, ran>>

GetInfo ==
    /\ pc = "info"
    /\ stdout' = Append(stdout, get_info(image))
    /\ ran' = Append(ran, "info")
    /\ pc' = NextOp(Pos("info"))
    /\ UNCHANGED <<fileExists, fileImage, argv, cropArg, coefArg, image, outputs, err>>

CropImage ==
    /\ pc = "crop"
    /\ Call("crop", crop_image(image, cropArg[1], cropArg[2], cropArg[3], cropArg[4]))

CropEmpty ==
    /\ pc = "crop_empty"
    /\ Call("crop_empty", crop_empty(image))

GetPalette ==
    /\ pc = "palette"
    /\ Call("palette", get_palette(image))

AdjustColors ==
    /\ pc = "adjust_colors"
    /\ Call("adjust_colors", adjust_colors(image, coefArg))

InvertColors ==
    /\ pc = "invert"
    /\ Call("invert", invert_colors(image))

Next ==
    \/ Load
    \/ GetInfo
    \/ CropImage
    \/ CropEmpty
    \/ GetPalette
    \/ AdjustColors
    \/ InvertColors

(***************************************************************************)
(* The inputs of a run: families of files and command lines.               *)
(***************************************************************************)
Input(exists, img, args, box, coefs) ==
    [exists |-> exists, img |-> img, argv |-> args,
     box |-> IF \E i \in 1 .. Len(args) : args[i] = "crop" THEN box ELSE << >>,
     coefs |-> IF \E i \in 1 .. Len(args) : args[i] = "adjust_colors" THEN coefs ELSE << >>]

File(mode, w, h, px, palette) ==
    [format |-> "PNG", mode |-> mode, w |-> w, h |-> h, px |-> px, palette |-> palette]

Unit == <<1, 1>>
Coefs123 == <<<<1, 1>>, <<2, 1>>, <<3, 1>>>>
CoefsHalf == <<<<1, 2>>, <<3, 2>>, <<-1, 1>>>>
CoefsUnit == <<Unit, Unit, Unit>>

\* Command lines: the flags, each at most once, in any order.
ArgvOfLength(n) ==
    {s \in [1 .. n -> Flags] : \A i, j \in 1 .. n : s[i] = s[j] => i = j}

Argvs == UNION {ArgvOfLength(n) : n \in 0 .. MaxArgs}

\* Rectangular crop: an image whose pixels are pairwise distinct, and every
\* box with coordinates from one below 0 to one above the size.
CoordImage(w, h) ==
    File("RGB", w, h, [p \in Coords(w, h) |-> <<p[1] + 1, p[2] + 1, 255>>], << >>)

CropInputs ==
    {Input(TRUE, CoordImage(w, h), <<"crop">>, <<l, u, r, lo>>, << >>) :
        w \in 1 .. MaxW, h \in 1 .. MaxH,
        l \in -1 .. MaxW + 1, r \in -1 .. MaxW + 1,
        u \in -1 .. MaxH + 1, lo \in -1 .. MaxH + 1}

\* Auto-crop: every image over black, a dark colour of luminance 0 and a
\* bright colour.
Colours == {<<0, 0, 0>>, <<1, 0, 1>>, <<200, 100, 50>>}

ContentImages ==
    UNION {{File("RGB", w, h, px, << >>) : px \in [Coords(w, h) -> Colours]} :
              w \in 1 .. MaxW, h \in 1 .. MaxH}

CropEmptyInputs ==
    {Input(TRUE, img, <<"crop_empty">>, << >>, << >>) : img \in ContentImages}

\* Colour operations: every channel value 0..255 at every band.
PointImages ==
    {File("RGB", 1, 1, [p \in Coords(1, 1) |->
             <<v, (v + 85) % 256, (v + 170) % 256>>], << >>) : v \in 0 .. 255}
    \cup
    {File("RGBA", 1, 1, [p \in Coords(1, 1) |->
             <<v, (v + 64) % 256, (v + 128) % 256, (v + 192) % 256>>], << >>) :
        v \in 0 .. 255}

PointInputs ==
    {Input(TRUE, img, <<"invert">>, << >>, << >>) : img \in PointImages}
    \cup
    {Input(TRUE, img, <<"adjust_colors">>, << >>, c) :
        img \in PointImages, c \in {CoefsUnit, Coefs123, CoefsHalf}}

\* Palette export: palettes of 1..MaxColors and of 256 entries.
PaletteOf(n) ==
    [k \in 1 .. 3 * n |->
        LET i == (k - 1) \div 3
        IN  CASE (k - 1) % 3 = 0 -> i
              [] (k - 1) % 3 = 1 -> 255 - i
              [] OTHER -> (7 * i + 1) % 256]

PaletteImage(n) ==
    File("P", 1, 1, [p \in Coords(1, 1) |-> <<n - 1>>], PaletteOf(n))

PaletteInputs ==
    {Input(TRUE, PaletteImage(n), a, << >>, << >>) :
        n \in (1 .. MaxColors) \cup {256},
        a \in {<<"palette">>, <<"crop_empty", "palette">>}}

\* Whole runs: every command line of at most MaxArgs flags on a few files.
MainImages ==
    { File("RGB", 2, 2, [p \in Coords(2, 2) |->
               IF p[1] = 0 THEN <<0, 0, 0>> ELSE <<200, 100, 50 + p[2]>>], << >>),
      File("RGB", 2, 1, [p \in Coords(2, 1) |-> <<0, 0, 0>>], << >>),
      File("RGBA", 1, 2, [p \in Coords(1, 2) |->
               IF p[2] = 0 THEN <<10, 20, 30, 40>> ELSE <<0, 0, 0, 255>>], << >>),
      File("P", 2, 2, [p \in Coords(2, 2) |->
               IF p[1] = 0 THEN <<0>> ELSE <<1 + 3 * p[2]>>],
           <<0, 0, 0,  255, 0, 0,  0, 255, 0,  0, 0, 255,  9, 8, 7>>),
      File("L", 2, 1, [p \in Coords(2, 1) |-> <<7 * p[1]>>], << >>) }

MainBoxes == {<<0, 0, 1, 1>>, <<0, 0, 2, 1>>, <<0, 0, 3, 1>>, <<1, 0, 1, 1>>}

MainInputs ==
    {Input(TRUE, img, a, b, c) :
        img \in MainImages, a \in Argvs, b \in MainBoxes, c \in {Coefs123, CoefsHalf}}
    \cup
    {Input(FALSE, NoImage, a, b, Coefs123) : a \in Argvs, b \in {<<0, 0, 1, 1>>}}

\* The state before main() builds the ImageProcessor from input inp.
Start(inp) ==
    /\ fileExists = inp.exists
    /\ fileImage = inp.img
    /\ argv = inp.argv
    /\ cropArg = inp.box
    /\ coefArg = inp.coefs
    /\ pc = "init"
    /\ image = NoImage
    /\ outputs = [f \in Prefixes |-> NoImage]
    /\ err = << >>
    /\ stdout = << >>
    /\ ran = << >>

Init ==
    \/ \E inp \in CropInputs : Start(inp)
    \/ \E inp \in CropEmptyInputs : Start(inp)
    \/ \E inp \in PointInputs : Start(inp)
    \/ \E inp \in PaletteInputs : Start(inp)
    \/ \E inp \in MainInputs : Start(inp)

Spec == Init /\ [][Next]_vars

(***************************************************************************)
(* Properties.                                                             *)
(***************************************************************************)
Ran(op) == \E i \in 1 .. Len(ran) : ran[i] = op

Max(S) == CHOOSE m \in S : \A n \in S : m >= n

\* 0 <= left < right <= width and 0 <= upper < lower <= height
ValidBox(img, b) ==
    /\ 0 <= b[1] /\ b[1] < b[3] /\ b[3] <= img.w
    /\ 0 <= b[2] /\ b[2] < b[4] /\ b[4] <= img.h

\* Some coordinate lies outside [0, width] or [0, height].
OutOfRange(img, b) ==
    \/ b[1] < 0 \/ b[1] > img.w \/ b[3] < 0 \/ b[3] > img.w
    \/ b[2] < 0 \/ b[2] > img.h \/ b[4] < 0 \/ b[4] > img.h

BoundsErrors(img) == {CropBounds(img.w, img.h), CropOrder}

\* C1: with a valid box, the call of crop_image raises nothing and saves
\* under 'cropped' an image of size (right-left, lower-upper) whose pixel
\* (x, y) is the working image's pixel (left+x, upper+y); the working image
\* is the same after the call as before it.
C1_CropValidBox ==
    [][ (pc = "crop" /\ ValidBox(image, cropArg)) =>
          LET out == outputs'["cropped"] IN
          /\ err' = err
          /\ out.w = cropArg[3] - cropArg[1]
          /\ out.h = cropArg[4] - cropArg[2]
          /\ DOMAIN out.px = Coords(out.w, out.h)
          /\ \A p \in Coords(out.w, out.h) :
                out.px[p] = image.px[<<cropArg[1] + p[1], cropArg[2] + p[2]>>]
          /\ image' = image ]_vars

\* A crop of a 2x2 image to its right column has been saved.
C1_Witness ==
    /\ Ran("crop")
    /\ fileImage.w = 2 /\ fileImage.h = 2
    /\ cropArg = <<1, 0, 2, 2>>
    /\ outputs["cropped"].w = 1 /\ outputs["cropped"].h = 2
    /\ outputs["cropped"].px[<<0, 1>>] = fileImage.px[<<1, 1>>]

\* C2: with a box that is not valid, the call of crop_image prints one of
\* the two invalid-crop-dimensions errors, saves nothing and leaves the
\* working image as it was; with a valid box it saves a 'cropped' output.
\* So 'cropped' is written if and only if the box is valid.
C2_CropInvalidBox ==
    [][ pc = "crop" =>
          IF ValidBox(image, cropArg)
          THEN outputs'["cropped"] # NoImage /\ err' = err
          ELSE /\ Len(err') = Len(err) + 1
               /\ err'[Len(err')] \in BoundsErrors(image)
               /\ outputs' = outputs
               /\ outputs'["cropped"] = NoImage
               /\ image' = image ]_vars

\* A box with left = right inside the image has been refused.
C2_Witness ==
    /\ Ran("crop")
    /\ cropArg = <<1, 0, 1, 1>>
    /\ ~ OutOfRange(fileImage, cropArg)
    /\ err = <<CropOrder>>
    /\ outputs["cropped"] = NoImage

\* C10: whenever a coordinate of the box is out of range, the error of
\* crop_image is the one naming the image dimensions, and the ordering
\* error is reported only when all four coordinates are in range.
C10_RangeBeforeOrdering ==
    [][ (pc = "crop" /\ OutOfRange(image, cropArg)) =>
          err' = Append(err, CropBounds(image.w, image.h)) ]_vars

\* C3: in the 'adjusted' output every channel with index c (R=0, G=1, B=2,
\* A=3) and value v holds v times coefficients[c mod 3], rounded and clamped
\* into 0..255: the coefficient is chosen by the channel, never by v.
C3_CoefficientByChannel ==
    outputs["adjusted"] # NoImage =>
        LET out == outputs["adjusted"] IN
        /\ out.w = image.w /\ out.h = image.h /\ out.mode = image.mode
        /\ \A p \in Coords(image.w, image.h) :
              \A c \in 1 .. Bands(image.mode) :
                 LET k == coefArg[((c - 1) % 3) + 1]
                 IN  out.px[p][c] = Clip8(Round(image.px[p][c] * k[1], k[2]))

\* C4: in the 'inverted' output every channel of every pixel, alpha
\* included, holds 255 - v for the working image's value v, and inverting
\* that output again gives the working image's pixel values back.
C4_InvertInvolution ==
    outputs["inverted"] # NoImage =>
        LET out == outputs["inverted"] IN
        /\ image.mode \in {"RGB", "RGBA"}
        /\ out.w = image.w /\ out.h = image.h /\ out.mode = image.mode
        /\ DOMAIN out.px = Coords(image.w, image.h)
        /\ \A p \in Coords(image.w, image.h) :
              /\ Len(out.px[p]) = Bands(image.mode)
              /\ \A c \in 1 .. Bands(image.mode) :
                    out.px[p][c] = 255 - image.px[p][c]
        /\ invert_colors(out).ok
        /\ invert_colors(out).out.px = image.px

\* An RGBA pixel has been inverted, its alpha 192 to 63.
C4_Witness ==
    /\ Ran("invert")
    /\ image.mode = "RGBA"
    /\ image.px[<<0, 0>>] = <<0, 64, 128, 192>>
    /\ outputs["inverted"].px[<<0, 0>>] = <<255, 191, 127, 63>>

\* The pixels of luminance > 0.
Content(img) == {p \in Coords(img.w, img.h) : Luminance(img, p) > 0}

Xs(C) == {p[1] : p \in C}
Ys(C) == {p[2] : p \in C}

\* C5: on a working image without any pixel of luminance > 0 the call of
\* crop_empty ends the run with the error of the failed lookup of the first
\* True; no 'cropped_empty' output is written and the working image stays.
C5_CropEmptyNoContent ==
    [][ (pc = "crop_empty" /\ Content(image) = {}) =>
          /\ err' = Append(err, NotInList)
          /\ pc' = "done"
          /\ outputs' = outputs
          /\ outputs'["cropped_empty"] = NoImage
          /\ image' = image ]_vars

\* crop_empty has failed on a 2x2 image that is not all zero but has no
\* pixel of luminance > 0.
C5_Witness ==
    /\ ran = <<"crop_empty">>
    /\ fileImage.w = 2 /\ fileImage.h = 2
    /\ Content(fileImage) = {}
    /\ fileImage.px[<<1, 1>>] = <<1, 0, 1>>
    /\ err = <<NotInList>>
    /\ image = fileImage

\* C6: on a working image with content, crop_empty saves and keeps the
\* minimal bounding box of the content: from the smallest x and y holding a
\* content pixel to the largest, so its first and last column and row hold a
\* content pixel, and one content pixel alone gives a 1x1 image.
C6_CropEmptyBoundingBox ==
    [][ (pc = "crop_empty" /\ Content(image) # {}) =>
          LET C == Content(image)
              left == Min(Xs(C))
              upper == Min(Ys(C))
              right == Max(Xs(C)) + 1
              lower == Max(Ys(C)) + 1
              out == outputs'["cropped_empty"]
          IN  /\ err' = err
              /\ image' = out
              /\ out.w = right - left /\ out.h = lower - upper
              /\ DOMAIN out.px = Coords(out.w, out.h)
              /\ \A p \in Coords(out.w, out.h) :
                    out.px[p] = image.px[<<left + p[1], upper + p[2]>>]
              /\ \A p \in C : <<p[1] - left, p[2] - upper>> \in Coords(out.w, out.h)
              /\ 0 \in Xs(Content(out)) /\ out.w - 1 \in Xs(Content(out))
              /\ 0 \in Ys(Content(out)) /\ out.h - 1 \in Ys(Content(out))
              /\ (Cardinality(C) = 1 => out.w = 1 /\ out.h = 1) ]_vars

\* A 2x2 image whose only content pixel is at (1, 1), beside a dark pixel of
\* luminance 0, has been cropped to 1x1.
C6_Witness ==
    /\ ran = <<"crop_empty">>
    /\ fileImage.w = 2 /\ fileImage.h = 2
    /\ Content(fileImage) = {<<1, 1>>}
    /\ fileImage.px[<<0, 0>>] = <<1, 0, 1>>
    /\ outputs["cropped_empty"].w = 1 /\ outputs["cropped_empty"].h = 1
    /\ image.px[<<0, 0>>] = <<200, 100, 50>>

\* C7: the 'palette' output of a palette with n >= 1 entries is a square RGB
\* image of the smallest side with side*side >= n (16 for 256, 4 for 10);
\* the cell (i mod side, i div side) holds entry i for every i < n, and the
\* cells of index y*side + x >= n are black.
C7_PaletteGrid ==
    outputs["palette"] # NoImage =>
        LET out == outputs["palette"]
            n == Len(image.palette) \div 3
            side == out.w
        IN  /\ n >= 1
            /\ out.mode = "RGB" /\ out.h = side
            /\ side * side >= n /\ (side - 1) * (side - 1) < n
            /\ (n = 256 => side = 16) /\ (n = 10 => side = 4)
            /\ DOMAIN out.px = Coords(side, side)
            /\ \A i \in 0 .. n - 1 :
                  out.px[<<i % side, i \div side>>] =
                      <<image.palette[3 * i + 1], image.palette[3 * i + 2],
                        image.palette[3 * i + 3]>>
            /\ \A p \in Coords(side, side) :
                  p[2] * side + p[1] >= n => out.px[p] = <<0, 0, 0>>

\* A palette of 10 entries has been laid out on a 4x4 grid, entry 9 at (1, 2)
\* and the cell (2, 2) left black.
C7_Witness ==
    /\ Ran("palette")
    /\ Len(image.palette) = 30
    /\ outputs["palette"].w = 4 /\ outputs["palette"].h = 4
    /\ outputs["palette"].px[<<1, 2>>] = <<9, 246, 64>>
    /\ outputs["palette"].px[<<2, 2>>] = <<0, 0, 0>>

\* The place of an operation in the documented sequence, 0 for the loading.
Rank(op) ==
    CASE op = "info" -> 1
      [] op = "crop" -> 2
      [] op = "crop_empty" -> 3
      [] op = "palette" -> 4
      [] op = "adjust_colors" -> 5
      [] op = "invert" -> 6
      [] OTHER -> 0

\* What an operation that completed has left behind.
Completed(op) ==
    /\ Ran(op)
    /\ IF op = "info" THEN Len(stdout) = 1 ELSE outputs[Prefix(op)] # NoImage

\* C8: at most one error message is ever printed, and once it is printed the
\* run has ended; the failure was the loading (nothing ran) or the last
\* operation called; every requested operation before it in the sequence
\* has completed and its output is there, and no requested operation after
\* it has run or written an output.
C8_FailureAborts ==
    /\ Len(err) <= 1
    /\ err # << >> =>
          LET failed == IF ran = << >> THEN 0 ELSE Rank(ran[Len(ran)]) IN
          /\ pc = "done"
          /\ (ran = << >>) = (err = <<FileNotFound>>)
          /\ \A op \in Flags :
                /\ (Requested(op) /\ Rank(op) < failed) => Completed(op)
                /\ Rank(op) > failed => ~ Ran(op)
                /\ (Rank(op) >= failed /\ op # "info") => outputs[Prefix(op)] = NoImage

\* crop_empty was requested between info and invert and failed: info has
\* printed, invert has not run, one message is printed.
C8_Witness ==
    /\ pc = "done"
    /\ Requested("info") /\ Requested("crop_empty") /\ Requested("invert")
    /\ argv[1] = "invert"
    /\ ran = <<"info", "crop_empty">>
    /\ err = <<NotInList>>
    /\ Len(stdout) = 1
    /\ outputs["inverted"] = NoImage

\* The working image that palette, adjust_colors and invert read.
Working == IF outputs["cropped_empty"] # NoImage THEN outputs["cropped_empty"] ELSE fileImage

\* C9: the operations called are the requested ones in the order info,
\* crop, crop_empty, palette, adjust_colors, invert, whatever the order of
\* the flags; the working image is the loaded image until crop_empty
\* succeeds and the auto-cropped image from then on; info and crop read the
\* loaded image, and palette, adjust_colors and invert read the auto-cropped
\* image when crop_empty succeeded and the loaded image otherwise.
C9_FixedOrder ==
    /\ \A i, j \in 1 .. Len(ran) : i < j => Rank(ran[i]) < Rank(ran[j])
    /\ \A i \in 1 .. Len(ran) : Requested(ran[i])
    /\ (pc = "done" /\ err = << >>) => \A op \in Flags : Requested(op) <=> Ran(op)
    /\ image = (IF pc = "init" \/ ~ fileExists THEN NoImage ELSE Working)
    /\ outputs["cropped_empty"] # NoImage => Ran("crop_empty")
    /\ Ran("info") => stdout = <<get_info(fileImage)>>
    /\ Ran("crop") =>
          /\ outputs["cropped"] # NoImage <=> ValidBox(fileImage, cropArg)
          /\ outputs["cropped"] = NoImage =>
                err[1] \in BoundsErrors(fileImage)
          /\ outputs["cropped"] # NoImage =>
                /\ outputs["cropped"].w = cropArg[3] - cropArg[1]
                /\ outputs["cropped"].h = cropArg[4] - cropArg[2]
                /\ \A p \in Coords(outputs["cropped"].w, outputs["cropped"].h) :
                      outputs["cropped"].px[p] =
                          fileImage.px[<<cropArg[1] + p[1], cropArg[2] + p[2]>>]
    /\ Ran("palette") =>
          IF Working.mode = "P"
          THEN /\ outputs["palette"].mode = "RGB"
               /\ outputs["palette"].w * outputs["palette"].w >= Len(Working.palette) \div 3
          ELSE err = <<NoPalette>>
    /\ Ran("adjust_colors") =>
          IF Working.mode \in {"RGB", "RGBA"}
          THEN /\ outputs["adjusted"].w = Working.w
               /\ outputs["adjusted"].h = Working.h
               /\ \A p \in Coords(Working.w, Working.h) :
                     \A c \in 1 .. Bands(Working.mode) :
                        outputs["adjusted"].px[p][c] =
                            Clip8(AdjustValue(coefArg, Working.px[p][c]))
          ELSE err = <<AdjustMode(Working.mode)>>
    /\ Ran("invert") =>
          IF Working.mode \in {"RGB", "RGBA"}
          THEN /\ outputs["inverted"].w = Working.w
               /\ outputs["inverted"].h = Working.h
               /\ \A p \in Coords(Working.w, Working.h) :
                     \A c \in 1 .. Bands(Working.mode) :
                        outputs["inverted"].px[p][c] = 255 - Working.px[p][c]
          ELSE err = <<InvertMode(Working.mode)>>

\* With the flags given as invert, crop_empty, crop, the crop was taken from
\* the loaded 2x2 image, crop_empty reduced the working image to 1x2, and
\* invert produced a 1x2 image.
C9_Witness ==
    /\ pc = "done"
    /\ argv = <<"invert", "crop_empty", "crop">>
    /\ ran = <<"crop", "crop_empty", "invert">>
    /\ fileImage.w = 2 /\ fileImage.h = 2
    /\ cropArg = <<0, 0, 2, 1>>
    /\ outputs["cropped"].w = 2
    /\ image.w = 1 /\ image.h = 2
    /\ outputs["inverted"].w = 1 /\ outputs["inverted"].h = 2

====
